---------------------------- MODULE Spec2Model ----------------------------
(***************************************************************************)
(* Model of the roadtrip package (src/roadtrip/roadtrip.go): the section   *)
(* locator GetSectionContents, the erroneous-header strip of LoadFile and  *)
(* the section-by-section load of Vehicle.UnmarshalRoadtrip.               *)
(*                                                                         *)
(* A document is a sequence of bytes, each byte a one-character string.    *)
(* Offsets are Go offsets (0-based); a range [start, end) is Go's          *)
(* data[start:end].                                                        *)
(***************************************************************************)
EXTENDS Integers, Sequences, FiniteSets, TLC

VARIABLES
    order,      \* order of the six sections in the file on disk
    content,    \* what the file on disk holds: the rows of each section
    disk,       \* bytes of the file named by the caller
    readable,   \* TRUE when os.ReadFile succeeds on it
    entry,      \* entry point the caller used, "none" before the call
    pc,         \* position of the call: "idle", "unmarshal", "returned", "panicked"
    idx,        \* number of targets UnmarshalRoadtrip has decoded so far
    v,          \* the Vehicle: Filename, Raw and the six record collections
    err,        \* error returned to the caller (NoError while none)
    strips,     \* how many times the strip ran on the data being parsed
    doc,        \* document handed to GetSectionContents on its own
    req,        \* header requested by the last GetSectionContents call
    out,        \* outcome of the last GetSectionContents call
    extracted,  \* history of the load: the header and range of every section
                \* it has taken out of Raw, in the order of the calls
    dateString, \* text handed to ParseDate
    datePc,     \* position of the ParseDate call: "idle", "returned"
    dateOut     \* what ParseDate returned: the time, the error, the layouts tried

dateVars == <<dateString, datePc, dateOut>>

vars == <<order, content, disk, readable, entry, pc, idx, v, err, strips, doc, req, out,
          extracted, dateString, datePc, dateOut>>

-----------------------------------------------------------------------------
(* Byte strings *)

NL == "\n"

VEHICLE == <<"V","E","H","I","C","L","E">>
FUEL_RECORDS == <<"F","U","E","L"," ","R","E","C","O","R","D","S">>
MAINTENANCE_RECORDS ==
    <<"M","A","I","N","T","E","N","A","N","C","E"," ","R","E","C","O","R","D","S">>
ROAD_TRIPS == <<"R","O","A","D"," ","T","R","I","P","S">>
TIRE_LOG == <<"T","I","R","E"," ","L","O","G">>
VALUATIONS == <<"V","A","L","U","A","T","I","O","N","S">>

\* The `roadtrip` struct tags of Vehicle, in field order.
SectionHeaderList ==
    <<VEHICLE, FUEL_RECORDS, MAINTENANCE_RECORDS, ROAD_TRIPS, TIRE_LOG, VALUATIONS>>

Headers == {SectionHeaderList[k] : k \in DOMAIN SectionHeaderList}

\* ",Tank 1 Type,Tank 2 Type,Tank 2 Units"
omitHeaders ==
    <<",","T","a","n","k"," ","1"," ","T","y","p","e",
      ",","T","a","n","k"," ","2"," ","T","y","p","e",
      ",","T","a","n","k"," ","2"," ","U","n","i","t","s">>

\* The header block of a data file:
\* ROAD TRIP CSV ",."
\* Version,Language
\* 1500,en
HeaderBlock ==
    <<"R","O","A","D"," ","T","R","I","P"," ","C","S","V"," ","\"",",",".","\"",NL,
      "V","e","r","s","i","o","n",",","L","a","n","g","u","a","g","e",NL,
      "1","5","0","0",",","e","n",NL>>

-----------------------------------------------------------------------------
(* bytes.Index and bytes.Replace(s, old, {}, 1) *)

\* Mutant: the offset of the last occurrence is returned.
Index_Last(s, sep) ==
    LET found == { i \in 0..(Len(s) - Len(sep)) :
                     s[i + 1] = sep[1] /\ SubSeq(s, i + 1, i + Len(sep)) = sep }
    IN IF found = {} THEN -1
       ELSE CHOOSE i \in found : \A j \in found : i >= j

\* Offset of the first occurrence of sep in s, -1 when there is none.
Index(s, sep) ==
    LET found == { i \in 0..(Len(s) - Len(sep)) :
                     s[i + 1] = sep[1] /\ SubSeq(s, i + 1, i + Len(sep)) = sep }
    IN IF found = {} THEN -1
       ELSE CHOOSE i \in found : \A j \in found : i <= j

Contains(s, sep) == Index(s, sep) >= 0

\* Mutant: bytes.Replace with n = -1, every occurrence is cut out.
RECURSIVE StripErroneous_All(_)
StripErroneous_All(buf) ==
    LET i == Index(buf, omitHeaders) IN
    IF i < 0 THEN buf
    ELSE StripErroneous_All(
             SubSeq(buf, 1, i) \o SubSeq(buf, i + Len(omitHeaders) + 1, Len(buf)))

\* bytes.Replace(buf, omitHeaders, []byte{}, 1): the first occurrence is cut out.
StripErroneous(buf) ==
    LET i == Index(buf, omitHeaders) IN
    IF i < 0 THEN buf
    ELSE SubSeq(buf, 1, i) \o SubSeq(buf, i + Len(omitHeaders) + 1, Len(buf))


-----------------------------------------------------------------------------
(* GetSectionContents *)

\* The first loop: sectionStart[element] = bytes.Index(dataBytes, element) for
\* each element of the header list, starting from the empty map.
RECURSIVE FillSectionStart(_, _, _)
FillSectionStart(sectionStart, dataBytes, elements) ==
    IF elements = <<>> THEN sectionStart
    ELSE FillSectionStart(
             (Head(elements) :> Index(dataBytes, Head(elements))) @@ sectionStart,
             dataBytes, Tail(elements))

\* The map once the first loop is over: header -> offset of its first occurrence.
SectionStart(dataBytes) == FillSectionStart(<<>>, dataBytes, SectionHeaderList)

\* Mutant: the next header's offset itself is taken as the end.
EndStep_NoMinusOne(e, startPosition, endPosition) ==
    IF e > startPosition /\ e < endPosition THEN e ELSE endPosition

\* Mutant: any later header moves the end, not only a nearer one.
EndStep_NoNearest(e, startPosition, endPosition) ==
    IF e > startPosition THEN e - 1 ELSE endPosition

\* Mutant: the comparison with the start is not strict.
EndStep_NotStrict(e, startPosition, endPosition) ==
    IF e >= startPosition /\ e < endPosition THEN e - 1 ELSE endPosition

\* Mutant: the offset is not compared with the start.
EndStep_NoStartCheck(e, startPosition, endPosition) ==
    IF e < endPosition THEN e - 1 ELSE endPosition

\* Body of the second loop for one map value e.
EndStep(e, startPosition, endPosition) ==
    IF e > startPosition /\ e < endPosition THEN e - 1 ELSE endPosition

\* The second loop. Go visits the keys of a map in an unspecified order, so
\* the loop is followed through every order at once: a configuration is
\* <<keys visited so far, endPosition>>, and one more iteration takes every
\* configuration to those that visit one more key.
RECURSIVE EndLoop(_, _, _, _)
EndLoop(sectionStart, startPosition, configs, iterations) ==
    IF iterations = 0 THEN configs
    ELSE EndLoop(sectionStart, startPosition,
                 UNION { { <<c[1] \cup {k},
                             EndStep(sectionStart[k], startPosition, c[2])>> :
                           k \in (DOMAIN sectionStart) \ c[1] } : c \in configs },
                 iterations - 1)

\* Every value endPosition can have when the second loop is over.
EndPositions(sectionStart, startPosition, length) ==
    { c[2] : c \in EndLoop(sectionStart, startPosition, {<<{}, length>>},
                           Cardinality(DOMAIN sectionStart)) }

\* Mutant: the line terminator after the header is not skipped.
ContentStart_NoTerminator(startPosition, sectionHeader) ==
    startPosition + Len(sectionHeader)

\* Mutant: the header string is not skipped, only one byte is.
ContentStart_NoHeader(startPosition, sectionHeader) == startPosition + 1

\* "Don't include the section header line in the outbuf"
ContentStart(startPosition, sectionHeader) ==
    startPosition + Len(sectionHeader) + 1

\* dataBytes[startPosition:endPosition]: Go panics unless 0 <= start <= end <= cap.
SliceOK(dataBytes, startPosition, endPosition) ==
    /\ 0 <= startPosition
    /\ startPosition <= endPosition
    /\ endPosition <= Len(dataBytes)

\* outbuf for one value of endPosition; panic = TRUE when the slice expression
\* panics, and then there is no outbuf.
Slice(dataBytes, startPosition, endPosition) ==
    LET ok == SliceOK(dataBytes, startPosition, endPosition) IN
    [start |-> startPosition,
     end   |-> endPosition,
     panic |-> ~ok,
     bytes |-> IF ok THEN SubSeq(dataBytes, startPosition + 1, endPosition)
               ELSE <<>>]

\* Mutant: the second loop is left out, the end stays the end of the data.
GetSectionContents_NoEndLoop(dataBytes, sectionHeader) ==
    { Slice(dataBytes,
            ContentStart(SectionStart(dataBytes)[sectionHeader], sectionHeader),
            Len(dataBytes)) }

\* Every outcome of fileData.GetSectionContents(sectionHeader), one for each
\* value the map's iteration order can give endPosition.
GetSectionContents(dataBytes, sectionHeader) ==
    LET sectionStart == SectionStart(dataBytes)
        startPosition == sectionStart[sectionHeader]
    IN { Slice(dataBytes, ContentStart(startPosition, sectionHeader), endPosition) :
           endPosition \in EndPositions(sectionStart, startPosition, Len(dataBytes)) }

NoRange == [start |-> 0, end |-> 0, panic |-> FALSE, bytes |-> <<>>]

-----------------------------------------------------------------------------
(* Documents handed to GetSectionContents on its own *)

\* Longest run of bytes between two headers of a generated document.
MaxGap == 3

RECURSIVE Concat(_)
Concat(ss) == IF ss = <<>> THEN <<>> ELSE Head(ss) \o Concat(Tail(ss))

\* n bytes of text: "\n", "\na", "\na\n", ...
Filler(n) == [k \in 1..n |-> IF k % 2 = 1 THEN NL ELSE "a"]

\* Orders in which header strings follow each other; a header may occur twice.
Layouts ==
    { SectionHeaderList,
      <<VALUATIONS, TIRE_LOG, ROAD_TRIPS, MAINTENANCE_RECORDS, FUEL_RECORDS, VEHICLE>>,
      <<FUEL_RECORDS, VEHICLE, TIRE_LOG, FUEL_RECORDS, VALUATIONS,
        MAINTENANCE_RECORDS, VEHICLE, ROAD_TRIPS>> }

\* prefix, then every header of the layout that is in `present`, each followed
\* by gap bytes.
LayoutDoc(prefix, layout, present, gap) ==
    prefix \o Concat([k \in DOMAIN layout |->
                        IF layout[k] \in present
                        THEN layout[k] \o Filler(gap) ELSE <<>>])

SectionDocs ==
    { LayoutDoc(prefix, layout, present, gap) :
        prefix \in {<<>>, HeaderBlock}, layout \in Layouts,
        present \in SUBSET Headers, gap \in 0..MaxGap }

-----------------------------------------------------------------------------
(* cvslib.Unmarshal: the CSV decoder the package hands a section to *)

\* The fields of s between occurrences of the byte sep.
Split(s, sep) ==
    LET at == { i \in DOMAIN s : s[i] = sep }
        \* position of the k-th separator; 0 and Len(s) + 1 bracket the text
        cut(k) == IF k = 0 THEN 0
                  ELSE IF k > Cardinality(at) THEN Len(s) + 1
                  ELSE CHOOSE i \in at : Cardinality({j \in at : j <= i}) = k
    IN [k \in 1..(Cardinality(at) + 1) |-> SubSeq(s, cut(k - 1) + 1, cut(k) - 1)]

\* The lines of a CSV text; the reader skips empty lines.
Records(data) == SelectSeq(Split(data, NL), LAMBDA line : line # <<>>)

Fields(line) == Split(line, ",")

Digits == {"0", "1", "2", "3", "4", "5", "6", "7", "8", "9"}

IsNumber(field) == field # <<>> /\ \A k \in DOMAIN field : field[k] \in Digits

\* Column names of the record shapes, shortened to one byte each: "O" stands
\* for a required float64 column (`csv:"Odometer (mi)"`), "N" for a required
\* string column (`csv:"Note"`).
CsvHeaderRow == <<"O", ",", "N">>

ColumnAt(columns, name) == CHOOSE k \in DOMAIN columns : columns[k] = name

\* Names of the three columns of VehicleRecord tagged `optional`, as they are
\* spelled in omitHeaders.
Tank_1_Type == SubSeq(omitHeaders, 2, 12)
Tank_2_Type == SubSeq(omitHeaders, 14, 24)
Tank_2_Units == SubSeq(omitHeaders, 26, 37)

\* The part of a record shape every section has in the model: a float64 field
\* and a string field, both without the `optional` tag.
BaseShape ==
    << [field |-> "O", column |-> <<"O">>, optional |-> FALSE],
       [field |-> "N", column |-> <<"N">>, optional |-> FALSE] >>

\* Tank1Type, Tank2Type and Tank2Units of VehicleRecord.
TankShape(optional) ==
    << [field |-> "Tank1Type", column |-> Tank_1_Type, optional |-> optional],
       [field |-> "Tank2Type", column |-> Tank_2_Type, optional |-> optional],
       [field |-> "Tank2Units", column |-> Tank_2_Units, optional |-> optional] >>

\* Mutant: the three Tank fields carry no `optional` tag.
Shape_NoOptionalTag(target) ==
    IF target = "Vehicles" THEN BaseShape \o TankShape(FALSE) ELSE BaseShape

\* The record shape of the element type of a target: its csv tags.
Shape(target) ==
    IF target = "Vehicles" THEN BaseShape \o TankShape(TRUE) ELSE BaseShape

\* Unmarshal(sectionData, target): ok with one record per data row, or the
\* error of the first check that fails together with the records of the rows
\* before it. The header row must name the column of every field of the shape
\* that is not optional, every row must have as many fields as the header
\* row, and the field of a float64 column must be a number. A field whose
\* column the header row does not name keeps its zero value; a column the
\* shape does not name is ignored.
Unmarshal(sectionData, target) ==
    LET shape    == Shape(target)
        records  == Records(sectionData)
        columns  == IF records = <<>> THEN <<>> ELSE Fields(records[1])
        rows     == [k \in 1..(Len(records) - 1) |-> Fields(records[k + 1])]
        has(c)   == \E j \in DOMAIN columns : columns[j] = c
        named    == \A i \in DOMAIN shape : shape[i].optional \/ has(shape[i].column)
        short(k) == Len(rows[k]) # Len(columns)
        bad      == { k \in DOMAIN rows :
                        short(k) \/ ~IsNumber(rows[k][ColumnAt(columns, <<"O">>)]) }
        good     == IF bad = {} THEN Len(rows)
                    ELSE (CHOOSE k \in bad : \A j \in bad : k <= j) - 1
        entryOf(f) == shape[CHOOSE i \in DOMAIN shape : shape[i].field = f]
        record(k) == [f \in {shape[i].field : i \in DOMAIN shape} |->
                        IF has(entryOf(f).column)
                        THEN rows[k][ColumnAt(columns, entryOf(f).column)]
                        ELSE <<>>]
    IN [ok    |-> named /\ bad = {},
        error |-> IF ~named THEN "header"
                  ELSE IF bad = {} THEN "nil"
                  ELSE IF short(good + 1) THEN "fields" ELSE "row",
        rows  |-> IF ~named THEN <<>> ELSE [k \in 1..good |-> record(k)]]

-----------------------------------------------------------------------------
(* Well-formed documents: header block, then the six sections, each after a *)
(* blank line and introduced by its header line                             *)

\* Most data rows a generated section starts with.
MaxRows == 1

HeaderNumber(h) == CHOOSE k \in DOMAIN SectionHeaderList : SectionHeaderList[k] = h

\* A row that decodes; its number tells the sections apart.
GoodRow(h) == <<ToString(HeaderNumber(h)), ",", "n">>

\* A row whose float64 field is not a number.
BadRow == <<"x", ",", "n">>

\* A row whose string field holds the text of a section header.
MentionRow(h, mentioned) == <<ToString(HeaderNumber(h)), ",">> \o mentioned

\* The rows of every section: n good rows, and one more row in section
\* `special` of the kind named.
Rows(n, special, kind) ==
    [h \in Headers |->
        [k \in 1..n |-> GoodRow(h)]
        \o (IF h # special THEN <<>>
            ELSE IF kind = "good" THEN <<GoodRow(h)>>
            ELSE IF kind = "bad" THEN <<BadRow>>
            ELSE IF kind = "vehicle" THEN <<MentionRow(h, VEHICLE)>>
            ELSE IF kind = "tire" THEN <<MentionRow(h, TIRE_LOG)>>
            ELSE <<>>)]

Contents ==
    { [rows |-> Rows(n, special, kind), defect |-> defect] :
        n \in 0..MaxRows, special \in Headers,
        kind \in {"plain", "good", "bad", "vehicle", "tire"}, defect \in BOOLEAN }

\* Orders of the sections in a file.
SectionOrders ==
    { SectionHeaderList,
      <<VALUATIONS, TIRE_LOG, ROAD_TRIPS, MAINTENANCE_RECORDS, FUEL_RECORDS, VEHICLE>>,
      <<FUEL_RECORDS, TIRE_LOG, VEHICLE, VALUATIONS, MAINTENANCE_RECORDS, ROAD_TRIPS>> }

\* The CSV header row of section h: the one the file content names, the usual
\* one otherwise.
HeaderRow(h, c) == IF "columns" \in DOMAIN c THEN c.columns[h] ELSE CsvHeaderRow

\* One section: header line, CSV header row, data rows. The vendor defect adds
\* the three erroneous column names to the header row of VEHICLE.
SectionText(h, c) ==
    h \o <<NL>>
      \o HeaderRow(h, c) \o (IF c.defect /\ h = VEHICLE THEN omitHeaders ELSE <<>>)
      \o <<NL>>
      \o Concat([k \in DOMAIN c.rows[h] |-> c.rows[h][k] \o <<NL>>])

Document(o, c) ==
    HeaderBlock \o Concat([k \in DOMAIN o |-> <<NL>> \o SectionText(o[k], c)])

-----------------------------------------------------------------------------
(* ParseDate: time.Parse with the layouts "2006-1-2 15:04" and "2006-1-2" *)

\* The two layouts, cut into the chunks time.Parse takes them apart into.
DateTimeLayout == <<"2006", "-", "1", "-", "2", " ", "15", ":", "04">>
DateLayout == <<"2006", "-", "1", "-", "2">>

DigitValue(c) == CHOOSE n \in 0..9 : ToString(n) = c

\* isDigit(s, i), i a Go offset
IsDigit(s, i) == i + 1 <= Len(s) /\ s[i + 1] \in Digits

\* getnum(s, fixed): one or two digits, two when fixed.
Getnum(s, fixed) ==
    IF ~IsDigit(s, 0) THEN [ok |-> FALSE, n |-> 0, rest |-> s]
    ELSE IF ~IsDigit(s, 1)
         THEN IF fixed THEN [ok |-> FALSE, n |-> 0, rest |-> s]
              ELSE [ok |-> TRUE, n |-> DigitValue(s[1]), rest |-> Tail(s)]
         ELSE [ok |-> TRUE, n |-> DigitValue(s[1]) * 10 + DigitValue(s[2]),
               rest |-> SubSeq(s, 3, Len(s))]

IsLeap(year) == year % 4 = 0 /\ (year % 100 # 0 \/ year % 400 = 0)

DaysIn(month, year) ==
    IF month = 2 THEN (IF IsLeap(year) THEN 29 ELSE 28)
    ELSE IF month \in {4, 6, 9, 11} THEN 30 ELSE 31

\* time.Time{}: January 1 of year 1, 00:00
ZeroTime == [year |-> 1, month |-> 1, day |-> 1, hour |-> 0, minute |-> 0]

BadTime == [ok |-> FALSE, t |-> ZeroTime]

\* The loop of time.Parse over the chunks of the layout: a literal chunk must
\* be the next byte of value, a field chunk reads its digits and checks its
\* range; text left over when the layout is used up is an error, and the day
\* is checked against the month once everything is read.
RECURSIVE ParseChunks(_, _, _)
ParseChunks(chunks, value, t) ==
    IF chunks = <<>>
    THEN IF value # <<>> THEN BadTime
         ELSE IF t.day < 1 \/ t.day > DaysIn(t.month, t.year) THEN BadTime
         ELSE [ok |-> TRUE, t |-> t]
    ELSE LET chunk == Head(chunks)
             g == Getnum(value, chunk = "04")
         IN IF chunk = "2006"
            THEN IF Len(value) < 4 \/ \E k \in 1..4 : value[k] \notin Digits
                 THEN BadTime
                 ELSE ParseChunks(Tail(chunks), SubSeq(value, 5, Len(value)),
                          [t EXCEPT !.year = DigitValue(value[1]) * 1000
                                             + DigitValue(value[2]) * 100
                                             + DigitValue(value[3]) * 10
                                             + DigitValue(value[4])])
            ELSE IF chunk = "1"
            THEN IF ~g.ok \/ g.n <= 0 \/ 12 < g.n THEN BadTime
                 ELSE ParseChunks(Tail(chunks), g.rest, [t EXCEPT !.month = g.n])
            ELSE IF chunk = "2"
            THEN IF ~g.ok THEN BadTime
                 ELSE ParseChunks(Tail(chunks), g.rest, [t EXCEPT !.day = g.n])
            ELSE IF chunk = "15"
            THEN IF ~g.ok \/ g.n < 0 \/ 24 <= g.n THEN BadTime
                 ELSE ParseChunks(Tail(chunks), g.rest, [t EXCEPT !.hour = g.n])
            ELSE IF chunk = "04"
            THEN IF ~g.ok \/ g.n < 0 \/ 60 <= g.n THEN BadTime
                 ELSE ParseChunks(Tail(chunks), g.rest, [t EXCEPT !.minute = g.n])
            ELSE IF value # <<>> /\ value[1] = chunk
                 THEN ParseChunks(Tail(chunks), Tail(value), t)
                 ELSE BadTime

\* time.Parse(layout, value)
TimeParse(layout, value) ==
    ParseChunks(layout, value,
                [year |-> 0, month |-> 1, day |-> 1, hour |-> 0, minute |-> 0])

\* Mutant: the second layout is never tried.
ParseDate_NoFallback(text) ==
    LET first == TimeParse(DateTimeLayout, text) IN
    IF first.ok THEN [t |-> first.t, err |-> "nil", tried |-> <<DateTimeLayout>>]
    ELSE [t |-> ZeroTime, err |-> "unable to parse date", tried |-> <<DateTimeLayout>>]

\* Mutant: the failure of both layouts is logged and no error is returned.
ParseDate_NoError(text) ==
    LET first == TimeParse(DateTimeLayout, text) IN
    IF first.ok THEN [t |-> first.t, err |-> "nil", tried |-> <<DateTimeLayout>>]
    ELSE [t |-> TimeParse(DateLayout, text).t, err |-> "nil",
          tried |-> <<DateTimeLayout, DateLayout>>]

\* ParseDate(dateString): the time, the error, and the layouts handed to
\* time.Parse in the order of the calls.
ParseDate(text) ==
    LET first == TimeParse(DateTimeLayout, text) IN
    IF first.ok THEN [t |-> first.t, err |-> "nil", tried |-> <<DateTimeLayout>>]
    ELSE LET second == TimeParse(DateLayout, text) IN
         IF second.ok
         THEN [t |-> second.t, err |-> "nil", tried |-> <<DateTimeLayout, DateLayout>>]
         ELSE [t |-> ZeroTime, err |-> "unable to parse date",
               tried |-> <<DateTimeLayout, DateLayout>>]

NoDate == [t |-> ZeroTime, err |-> "nil", tried |-> <<>>]

IdleDate ==
    /\ dateString = <<>>
    /\ datePc = "idle"
    /\ dateOut = NoDate

\* Texts handed to ParseDate: year, month and day texts joined by "-", then
\* what follows the day; and texts that are no date at all.
YearTexts ==
    { <<"2","0","2","4">>, <<"2","0","2","3">>, <<"2","4">>, <<"2","0","x","4">> }

MonthTexts == { <<"2">>, <<"0","2">>, <<"1","2">>, <<"1","3">>, <<"0">>, <<>> }

DayTexts == { <<"9">>, <<"0","9">>, <<"2","9">>, <<"3","0">>, <<"3","2">>, <<"0","0","9">> }

TimeTexts ==
    { <<>>,
      <<" ","1","5",":","0","4">>, <<" ","5",":","0","4">>, <<" ","0","5",":","0","4">>,
      <<" ","0",":","0","0">>, <<" ","2","3",":","5","9">>,
      <<" ","2","4",":","0","0">>, <<" ","1","5",":","4">>, <<" ","1","5",":","6","0">>,
      <<" ","1","5",":","0","4","x">>, <<" ","1","5",":","0","4",":","0","5">>,
      <<"T","1","5",":","0","4">>, <<" ">>, <<"x">> }

DateStrings ==
    { y \o <<"-">> \o m \o <<"-">> \o d \o tm :
        y \in YearTexts, m \in MonthTexts, d \in DayTexts, tm \in TimeTexts }
    \cup { <<>>,
           <<"n","o","t","-","a","-","d","a","t","e">>,
           <<"2","0","2","4","/","1","2","/","0","9">>,
           <<"1","5",":","0","4">> }

-----------------------------------------------------------------------------
(* The load: state of a Vehicle and of one call on it *)

NoError == [kind |-> "nil", label |-> <<>>, wraps |-> "nil"]

\* Fields of Vehicle carrying a `roadtrip` tag, in the order UnmarshalRoadtrip
\* appends them to targets.
Targets ==
    <<"Vehicles", "FuelRecords", "MaintenanceRecords", "Trips", "Tires", "Valuations">>

\* Mutant: every target is given the tag of the first field.
SectionHeaderForTarget_First(target) == SectionHeaderList[1]

\* The `roadtrip` tag of the Vehicle field the target points to.
SectionHeaderForTarget(target) ==
    SectionHeaderList[CHOOSE k \in DOMAIN Targets : Targets[k] = target]

\* var v Vehicle
ZeroVehicle ==
    [Filename |-> "", Raw |-> <<>>, logger |-> "nil",
     Vehicles |-> <<>>, FuelRecords |-> <<>>, MaintenanceRecords |-> <<>>,
     Trips |-> <<>>, Tires |-> <<>>, Valuations |-> <<>>]

IdleCall ==
    /\ entry = "none"
    /\ pc = "idle"
    /\ idx = 0
    /\ v = ZeroVehicle
    /\ err = NoError
    /\ strips = 0
    /\ extracted = <<>>

-----------------------------------------------------------------------------
(* Specification of GetSectionContents called on arbitrary documents *)

InitSection ==
    /\ doc \in SectionDocs
    /\ req = <<>>
    /\ out = NoRange
    /\ order = <<>>
    /\ content = [rows |-> [h \in Headers |-> <<>>], defect |-> FALSE]
    /\ disk = <<>>
    /\ readable = FALSE
    /\ IdleCall
    /\ IdleDate

\* One call of doc.GetSectionContents(sectionHeader). The six headers are
\* requested one after the other, in the order of the header list, as a load
\* requests them; a call that panics is recorded and the next one is made.
CallGetSectionContents(sectionHeader) ==
    /\ Len(extracted) < Len(SectionHeaderList)
    /\ sectionHeader = SectionHeaderList[Len(extracted) + 1]
    /\ req' = sectionHeader
    /\ \E sectionData \in GetSectionContents(doc, sectionHeader) :
          /\ out' = sectionData
          /\ extracted' = Append(extracted,
                                 [header |-> sectionHeader,
                                  start |-> sectionData.start,
                                  end |-> sectionData.end,
                                  panic |-> sectionData.panic])
    /\ UNCHANGED <<doc, order, content, disk, readable, entry, pc, idx, v, err, strips>>
    /\ UNCHANGED dateVars

NextSection == \E h \in Headers : CallGetSectionContents(h)

SpecSection == InitSection /\ [][NextSection]_vars

-----------------------------------------------------------------------------
(* Specification of GetSectionContents called again and again on a document *)

\* Most calls made on one document.
MaxCalls == 3

\* Documents with the six headers or without some of them, two bytes after
\* each header.
RepeatDocs ==
    { LayoutDoc(HeaderBlock, layout, Headers \ absent, 2) :
        layout \in Layouts, absent \in SUBSET {VEHICLE, TIRE_LOG} }

InitRepeat ==
    /\ disk \in RepeatDocs
    /\ doc = disk
    /\ req = <<>>
    /\ out = NoRange
    /\ order = <<>>
    /\ content = [rows |-> [h \in Headers |-> <<>>], defect |-> FALSE]
    /\ readable = TRUE
    /\ IdleCall
    /\ IdleDate

\* doc.GetSectionContents(sectionHeader) for any header, whatever was asked
\* before. The call reads doc and hands back a slice of it; it writes nothing.
CallGetSectionContentsAgain(sectionHeader) ==
    /\ Len(extracted) < MaxCalls
    /\ req' = sectionHeader
    /\ \E sectionData \in GetSectionContents(doc, sectionHeader) :
          /\ out' = sectionData
          /\ extracted' = Append(extracted,
                                 [header |-> sectionHeader,
                                  start |-> sectionData.start,
                                  end |-> sectionData.end,
                                  panic |-> sectionData.panic])
    /\ UNCHANGED <<doc, order, content, disk, readable, entry, pc, idx, v, err, strips>>
    /\ UNCHANGED dateVars

NextRepeat == \E h \in Headers : CallGetSectionContentsAgain(h)

SpecRepeat == InitRepeat /\ [][NextRepeat]_vars

-----------------------------------------------------------------------------
(* Specification of a load: NewVehicleFromFile, LoadFile and UnmarshalRoadtrip *)

Init ==
    /\ order \in SectionOrders
    /\ content \in Contents
    /\ disk = Document(order, content)
    /\ readable \in BOOLEAN
    /\ doc = <<>>
    /\ req = <<>>
    /\ out = NoRange
    /\ IdleCall
    /\ IdleDate

\* NewVehicle(options): a nil options.Logger is replaced by a logger on a
\* text handler that writes nowhere.
NewVehicle(optionsLogger) ==
    [ZeroVehicle EXCEPT
        !.logger = IF optionsLogger = "nil" THEN "discard" ELSE optionsLogger]

\* What fmt prints for "%s" of a target, a pointer to a slice of records:
\* "&[" , the records as their fields in braces, separated by spaces, "]". A float64 field
\* under %s prints as %!s(float64=...).
RECURSIVE FormatRecords(_)
FormatRecords(records) ==
    IF records = <<>> THEN <<>>
    ELSE <<"{", "%", "!", "s", "(", "f", "l", "o", "a", "t", "6", "4", "=">>
         \o Head(records).O \o <<")", " ">> \o Head(records).N
         \o (IF "Tank1Type" \in DOMAIN Head(records)
             THEN <<" ">> \o Head(records).Tank1Type
                  \o <<" ">> \o Head(records).Tank2Type
                  \o <<" ">> \o Head(records).Tank2Units
             ELSE <<>>)
         \o <<"}">>
         \o (IF Len(records) > 1 THEN <<" ">> ELSE <<>>)
         \o FormatRecords(Tail(records))

FormatTarget(records) == <<"&", "[">> \o FormatRecords(records) \o <<"]">>

\* fmt.Errorf("unable to parse %s: %w", target, err)
ParseError(records, cause) ==
    [kind |-> "parse", label |-> FormatTarget(records), wraps |-> cause]

\* The error of os.ReadFile.
ReadError == [kind |-> "read", label |-> <<>>, wraps |-> "nil"]

\* Mutant: Filename is set before the file is read.
LoadFileOn_FilenameFirst(receiver) ==
    IF ~readable
    THEN /\ v' = [receiver EXCEPT !.Filename = "filename"]
         /\ err' = ReadError
         /\ pc' = "returned"
         /\ strips' = 0
    ELSE /\ v' = [receiver EXCEPT !.Filename = "filename",
                                  !.Raw = StripErroneous(disk)]
         /\ err' = NoError
         /\ pc' = "unmarshal"
         /\ strips' = 1

\* v.LoadFile(filename) up to the first section: a read error is returned at
\* once; otherwise Filename is set, the erroneous headers are removed once and
\* UnmarshalRoadtrip(buf) starts by keeping buf in Raw.
LoadFileOn(receiver) ==
    IF ~readable
    THEN /\ v' = receiver
         /\ err' = ReadError
         /\ pc' = "returned"
         /\ strips' = 0
    ELSE /\ v' = [receiver EXCEPT !.Filename = "filename",
                                  !.Raw = StripErroneous(disk)]
         /\ err' = NoError
         /\ pc' = "unmarshal"
         /\ strips' = 1

\* NewVehicleFromFile(filename, options)
NewVehicleFromFile(optionsLogger) ==
    /\ pc = "idle"
    /\ entry' = "NewVehicleFromFile"
    /\ LoadFileOn(NewVehicle(optionsLogger))
    /\ UNCHANGED <<order, content, disk, readable, idx, doc, req, out, extracted>>
    /\ UNCHANGED dateVars

\* v.LoadFile(filename) on a Vehicle the caller holds
LoadFile(receiver) ==
    /\ pc = "idle"
    /\ entry' = "LoadFile"
    /\ LoadFileOn(receiver)
    /\ UNCHANGED <<order, content, disk, readable, idx, doc, req, out, extracted>>
    /\ UNCHANGED dateVars

\* v.UnmarshalRoadtrip(data) called by the caller itself, with the bytes of
\* the file as data
UnmarshalRoadtrip(receiver) ==
    /\ pc = "idle"
    /\ readable
    /\ entry' = "UnmarshalRoadtrip"
    /\ v' = [receiver EXCEPT !.Raw = disk]
    /\ pc' = "unmarshal"
    /\ UNCHANGED <<order, content, disk, readable, idx, err, strips, doc, req, out,
                   extracted>>
    /\ UNCHANGED dateVars

\* v.SetLogger(l) on the Vehicle the caller holds, before it loads anything
SetLogger(l) ==
    /\ pc = "idle"
    /\ v' = [v EXCEPT !.logger = l]
    /\ UNCHANGED <<order, content, disk, readable, entry, pc, idx, err, strips, doc,
                   req, out, extracted>>
    /\ UNCHANGED dateVars

\* One round of the loop over targets: data.UnmarshalRoadtripSection(target).
UnmarshalRoadtripSection ==
    /\ pc = "unmarshal"
    /\ idx < Len(Targets)
    /\ LET target == Targets[idx + 1]
           header == SectionHeaderForTarget(target)
       IN \E sectionData \in GetSectionContents(v.Raw, header) :
            /\ req' = header
            /\ out' = sectionData
            /\ extracted' = Append(extracted,
                                   [header |-> header, start |-> sectionData.start,
                                    end |-> sectionData.end,
                                    panic |-> sectionData.panic])
            /\ IF sectionData.panic
               THEN /\ pc' = "panicked"
                    /\ UNCHANGED <<v, idx, err>>
               ELSE LET decoded == Unmarshal(sectionData.bytes, target) IN
                    IF decoded.ok
                    THEN /\ v' = [v EXCEPT ![target] = decoded.rows]
                         /\ idx' = idx + 1
                         /\ UNCHANGED <<pc, err>>
                    ELSE \* the decoder may or may not have stored the records
                         \* it decoded before the error
                         \E kept \in {v[target], decoded.rows} :
                            /\ v' = [v EXCEPT ![target] = kept]
                            /\ err' = ParseError(kept, decoded.error)
                            /\ pc' = "returned"
                            /\ UNCHANGED idx
    /\ UNCHANGED <<order, content, disk, readable, entry, strips, doc>>
    /\ UNCHANGED dateVars

\* Mutant: nil is returned once the first section is decoded.
UnmarshalRoadtripReturn_Early ==
    /\ pc = "unmarshal"
    /\ idx >= 1
    /\ pc' = IF v.logger = "nil" THEN "panicked" ELSE "returned"
    /\ UNCHANGED <<order, content, disk, readable, entry, idx, v, err, strips,
                   doc, req, out, extracted>>
    /\ UNCHANGED dateVars

\* After the loop: v.logger.Debug(...), which dereferences the logger, and
\* return nil.
UnmarshalRoadtripReturn ==
    /\ pc = "unmarshal"
    /\ idx = Len(Targets)
    /\ pc' = IF v.logger = "nil" THEN "panicked" ELSE "returned"
    /\ UNCHANGED <<order, content, disk, readable, entry, idx, v, err, strips,
                   doc, req, out, extracted>>
    /\ UNCHANGED dateVars

Next ==
    \/ \E optionsLogger \in {"nil", "supplied"} : NewVehicleFromFile(optionsLogger)
    \/ \E l \in {"nil", "supplied"} : SetLogger(l)
    \/ LoadFile(v)
    \/ UnmarshalRoadtrip(v)
    \/ UnmarshalRoadtripSection
    \/ UnmarshalRoadtripReturn

Spec == Init /\ [][Next]_vars

-----------------------------------------------------------------------------
(* Specification of a load on a Vehicle that already holds an earlier load *)

\* A Vehicle after an earlier load of another file.
PreviousVehicle ==
    [Filename |-> "previous", Raw |-> HeaderBlock \o VEHICLE, logger |-> "supplied",
     Vehicles |-> <<[O |-> <<"7">>, N |-> <<"p">>, Tank1Type |-> <<"g">>,
                     Tank2Type |-> <<>>, Tank2Units |-> <<>>]>>,
     FuelRecords |-> <<[O |-> <<"8">>, N |-> <<"p">>]>>,
     MaintenanceRecords |-> <<>>, Trips |-> <<>>, Tires |-> <<>>,
     Valuations |-> <<[O |-> <<"9">>, N |-> <<"p">>]>>]

InitReload ==
    /\ order \in SectionOrders
    /\ content \in { [rows |-> Rows(n, VEHICLE, kind), defect |-> defect] :
                       n \in 0..MaxRows, kind \in {"plain", "good", "bad"},
                       defect \in BOOLEAN }
    /\ disk = Document(order, content)
    /\ readable \in BOOLEAN
    /\ doc = <<>>
    /\ req = <<>>
    /\ out = NoRange
    /\ entry = "none"
    /\ pc = "idle"
    /\ idx = 0
    /\ v = PreviousVehicle
    /\ err = NoError
    /\ strips = 0
    /\ extracted = <<>>
    /\ IdleDate

SpecReload == InitReload /\ [][Next]_vars

-----------------------------------------------------------------------------
(* Specification of a load of files whose CSV header rows differ *)

\* Header rows of a section and a data row that fits each: the usual one; one
\* that also names the optional Tank 1 Type; one without the Note column.
ColumnVariants == {"usual", "tank", "noNote"}

VariantHeaderRow(variant) ==
    IF variant = "tank" THEN CsvHeaderRow \o <<",">> \o Tank_1_Type
    ELSE IF variant = "noNote" THEN <<"O">>
    ELSE CsvHeaderRow

VariantRow(h, variant) ==
    IF variant = "tank" THEN GoodRow(h) \o <<",", "g">>
    ELSE IF variant = "noNote" THEN <<ToString(HeaderNumber(h))>>
    ELSE GoodRow(h)

\* n rows in every section; VEHICLE and FUEL RECORDS have the header row of
\* their variant, the other sections the usual one.
ColumnContent(n, vehicleVariant, fuelVariant, defect) ==
    LET variant == [h \in Headers |->
                      IF h = VEHICLE THEN vehicleVariant
                      ELSE IF h = FUEL_RECORDS THEN fuelVariant
                      ELSE "usual"]
    IN [rows    |-> [h \in Headers |-> [k \in 1..n |-> VariantRow(h, variant[h])]],
        defect  |-> defect,
        columns |-> [h \in Headers |-> VariantHeaderRow(variant[h])]]

InitColumns ==
    /\ order \in SectionOrders
    /\ content \in { ColumnContent(n, vehicleVariant, fuelVariant, defect) :
                       n \in 0..MaxRows, vehicleVariant \in ColumnVariants,
                       fuelVariant \in ColumnVariants, defect \in BOOLEAN }
    /\ disk = Document(order, content)
    /\ readable = TRUE
    /\ doc = <<>>
    /\ req = <<>>
    /\ out = NoRange
    /\ IdleCall
    /\ IdleDate

SpecColumns == InitColumns /\ [][Next]_vars

-----------------------------------------------------------------------------
(* Specification of the strip applied to arbitrary buffers, more than once *)

\* Most pieces a generated buffer is made of, and most strips applied to it.
MaxPieces == 3
MaxStrips == 2

\* The erroneous text cut in two: ",Tank 1 Type,Tank 2 " and "Type,Tank 2 Units".
OmitHead == SubSeq(omitHeaders, 1, 20)
OmitTail == SubSeq(omitHeaders, 21, Len(omitHeaders))

StripPieces == {omitHeaders, OmitHead, OmitTail, CsvHeaderRow \o <<NL>>}

StripDocs ==
    UNION { { Concat(pieces) : pieces \in [1..n -> StripPieces] } : n \in 0..MaxPieces }

InitStrip ==
    /\ disk \in StripDocs
    /\ doc = disk
    /\ readable = TRUE
    /\ order = <<>>
    /\ content = [rows |-> [h \in Headers |-> <<>>], defect |-> FALSE]
    /\ req = <<>>
    /\ out = NoRange
    /\ IdleCall
    /\ IdleDate

\* buf = bytes.Replace(buf, omitHeaders, []byte{}, 1), on the buffer as it is
ApplyStrip ==
    /\ strips < MaxStrips
    /\ doc' = StripErroneous(doc)
    /\ strips' = strips + 1
    /\ UNCHANGED <<order, content, disk, readable, entry, pc, idx, v, err, req, out,
                   extracted>>
    /\ UNCHANGED dateVars

NextStrip == ApplyStrip

SpecStrip == InitStrip /\ [][NextStrip]_vars

-----------------------------------------------------------------------------
(* Specification of ParseDate called on a text *)

InitDate ==
    /\ dateString \in DateStrings
    /\ datePc = "idle"
    /\ dateOut = NoDate
    /\ disk = <<>>
    /\ doc = <<>>
    /\ readable = FALSE
    /\ order = <<>>
    /\ content = [rows |-> [h \in Headers |-> <<>>], defect |-> FALSE]
    /\ req = <<>>
    /\ out = NoRange
    /\ IdleCall

\* t, err := ParseDate(dateString)
CallParseDate ==
    /\ datePc = "idle"
    /\ dateOut' = ParseDate(dateString)
    /\ datePc' = "returned"
    /\ UNCHANGED <<order, content, disk, readable, entry, pc, idx, v, err, strips, doc,
                   req, out, extracted, dateString>>

NextDate == CallParseDate

SpecDate == InitDate /\ [][NextDate]_vars

-----------------------------------------------------------------------------
(* Claims about GetSectionContents, checked under SpecSection *)

Min(S) == CHOOSE x \in S : \A y \in S : x <= y

\* TRUE once GetSectionContents has been called for a header the document
\* holds / does not hold.
CalledFound == req # <<>> /\ Index(doc, req) >= 0
CalledAbsent == req # <<>> /\ Index(doc, req) < 0

\* First-occurrence offsets of the other headers that lie after offset s.
FollowingOffsets(d, h, s) ==
    { Index(d, g) : g \in Headers \ {h} } \cap (s + 1)..Len(d)

\* Offsets of the headers found in d.
FoundOffsets(d) == { Index(d, g) : g \in Headers } \ {-1}

\* C1 as stated: for a header that is present, the exclusive end of the
\* returned range is the smallest first-occurrence offset of another header
\* after it, or the length of the document when no header follows.
C1_EndIsNextHeaderOffset ==
    (CalledFound /\ ~out.panic) =>
        LET following == FollowingOffsets(doc, req, Index(doc, req)) IN
        out.end = IF following = {} THEN Len(doc) ELSE Min(following)

\* C1 amended: for a header that is present, the exclusive end of the returned
\* range is one less than the smallest first-occurrence offset of another
\* header after it (the byte before the next header is left out), or the
\* length of the document when no header follows.
C1_EndIsOneBeforeNextHeader ==
    (CalledFound /\ ~out.panic) =>
        LET following == FollowingOffsets(doc, req, Index(doc, req)) IN
        out.end = IF following = {} THEN Len(doc) ELSE Min(following) - 1

\* A returned range that ends before a following header.
C1_Witness ==
    /\ CalledFound
    /\ ~out.panic
    /\ FollowingOffsets(doc, req, Index(doc, req)) # {}
    /\ out.bytes # <<>>

\* C2: for a header found at offset s, the returned range starts at offset
\* s + len(header) + 1: its bytes are those of the document from there on.
C2_StartAfterHeaderLine ==
    (CalledFound /\ ~out.panic) =>
        /\ out.start = Index(doc, req) + Len(req) + 1
        /\ out.bytes = SubSeq(doc, Index(doc, req) + Len(req) + 2, out.end)

\* A non-empty range returned for a header that is not at offset 0.
C2_Witness ==
    /\ CalledFound
    /\ ~out.panic
    /\ Index(doc, req) > 0
    /\ out.bytes # <<>>
    /\ out.bytes[1] = doc[Index(doc, req) + Len(req) + 2]

AllHeadersPresent(d) == \A h \in Headers : Index(d, h) >= 0

\* Offsets of the bytes of a range [start, end).
RangeBytes(r) == r.start..(r.end - 1)

\* Offsets of the header line found for h: the header string and the line
\* terminator after it.
HeaderLineBytes(d, h) == Index(d, h)..(Index(d, h) + Len(h))

AbsentEnd(d) == IF FoundOffsets(d) = {} THEN Len(d) ELSE Min(FoundOffsets(d)) - 1

\* C10 as stated: for a header that is not found, the call slices from
\* len(header) to the smallest found offset - 1 (or to the end of the
\* document) and the caller receives that range.
C10_AbsentHeaderRangeReturned ==
    CalledAbsent =>
        /\ ~out.panic
        /\ out.start = Len(req)
        /\ out.end = AbsentEnd(doc)
        /\ out.bytes = SubSeq(doc, Len(req) + 1, AbsentEnd(doc))

\* C10 amended: for a header that is not found no not-found condition is
\* reported; the slice expression has the bounds len(header) and smallest
\* found offset - 1 (or the end of the document); the caller receives that
\* range when len(header) <= that end, and the call panics otherwise.
C10_AbsentHeaderRangeOrPanic ==
    CalledAbsent =>
        /\ out.start = Len(req)
        /\ out.end = AbsentEnd(doc)
        /\ out.panic <=> (Len(req) > AbsentEnd(doc))
        /\ ~out.panic => out.bytes = SubSeq(doc, Len(req) + 1, AbsentEnd(doc))

\* A range handed back for a header the document does not hold.
C10_Witness ==
    /\ CalledAbsent
    /\ ~out.panic
    /\ FoundOffsets(doc) # {}
    /\ out.bytes # <<>>

\* The call for a header the document does not hold panics.
C10_WitnessPanic == CalledAbsent /\ out.panic

\* Headers the document does not hold.
AbsentHeaders(d) == { g \in Headers : Index(d, g) < 0 }

\* C21: for a header that is present, whichever of the other headers are
\* absent, the end of the slice is the length of the document or one less
\* than the offset of a header found after the requested one; the offset -1
\* recorded for an absent header never gives the end -2.
C21_AbsentHeaderNeverEnds ==
    CalledFound =>
        /\ out.end # -2
        /\ out.end \in {Len(doc)}
                         \cup { e - 1 : e \in { f \in FoundOffsets(doc) :
                                                   f > Index(doc, req) } }
        /\ out.end >= Index(doc, req)

\* A range returned for a present header that has a found header after it,
\* in a document from which two other headers are absent.
C21_Witness ==
    /\ CalledFound
    /\ ~out.panic
    /\ out.bytes # <<>>
    /\ out.end < Len(doc)
    /\ Cardinality(AbsentHeaders(doc)) >= 2

\* C22: for a header that is present the slice bounds satisfy
\* 0 <= start <= end <= len(document) and the call does not panic.
C22_PresentHeaderNeverPanics ==
    CalledFound =>
        /\ ~out.panic
        /\ 0 <= out.start
        /\ out.start <= out.end
        /\ out.end <= Len(doc)

\* C23: for the document and the requested header of a call, every order in
\* which the map of offsets can be visited gives the same end, so the call
\* has one outcome.
C23_IterationOrderIndependent ==
    req # <<>> =>
        /\ Cardinality(EndPositions(SectionStart(doc), SectionStart(doc)[req],
                                    Len(doc))) = 1
        /\ GetSectionContents(doc, req) = {out}

\* A call for a header with at least two found headers after it, so that
\* the visiting order decides which of them is compared first.
C23_Witness ==
    /\ CalledFound
    /\ ~out.panic
    /\ Cardinality(FollowingOffsets(doc, req, Index(doc, req))) >= 2
    /\ out.end = Min(FollowingOffsets(doc, req, Index(doc, req))) - 1

-----------------------------------------------------------------------------
(* Claims about the strip, checked under SpecStrip *)

\* Offsets at which sep occurs in s.
Occurrences(s, sep) ==
    { i \in 0..(Len(s) - Len(sep)) : SubSeq(s, i + 1, i + Len(sep)) = sep }

\* C7 as stated: for every input, applying the strip to the output of the
\* strip returns that output unchanged.
C7_StripIdempotent == strips = 2 => doc = StripErroneous(disk)

\* C7 amended: the strip cuts out the first occurrence only. Applied to its
\* own output it returns that output unchanged for every input that holds the
\* text at most once and in which cutting it out does not join bytes into the
\* text anew; for an input that holds the text twice the second application
\* cuts out the second occurrence.
C7_StripIdempotentOnSingleDefect ==
    strips = 2 =>
        /\ ( /\ Cardinality(Occurrences(disk, omitHeaders)) <= 1
             /\ ~Contains(StripErroneous(disk), omitHeaders) )
           => doc = StripErroneous(disk)
        /\ Cardinality(Occurrences(disk, omitHeaders)) >= 2
           => /\ doc # StripErroneous(disk)
              /\ Len(doc) = Len(disk) - 2 * Len(omitHeaders)

\* The strip ran twice on an input holding the text once: the second run
\* changed nothing.
C7_Witness ==
    /\ strips = 2
    /\ Cardinality(Occurrences(disk, omitHeaders)) = 1
    /\ Len(doc) = Len(disk) - Len(omitHeaders)
    /\ doc = StripErroneous(disk)

-----------------------------------------------------------------------------
(* Claims about a load, checked under Spec *)

\* Offsets of the bytes before the first header found in d: the header block
\* and the blank line after it.
HeaderBlockBytes(d) ==
    0..((IF FoundOffsets(d) = {} THEN Len(d) ELSE Min(FoundOffsets(d))) - 1)

\* Offsets of the bytes of the header lines found in d.
AllHeaderLineBytes(d) ==
    UNION { HeaderLineBytes(d, h) : h \in {g \in Headers : Index(d, g) >= 0} }

\* Offsets of the bytes right before a header found in d.
SeparatorBytes(d) == { e - 1 : e \in FoundOffsets(d) } \ {-1}

ExtractedBytes == UNION { RangeBytes(extracted[i]) : i \in DOMAIN extracted }

AllExtracted ==
    /\ Len(extracted) = Len(Targets)
    /\ \A i \in DOMAIN extracted : ~extracted[i].panic

Reordered(o) ==
    IF strips = 1 THEN StripErroneous(Document(o, content)) ELSE Document(o, content)

\* C5: a section the load has decoded is extracted and decoded to the same
\* records from every document holding the same six sections in another
\* order.
C5_OrderIndependent ==
    \A k \in 1..idx : \A o \in SectionOrders :
        \A sectionData \in GetSectionContents(Reordered(o), SectionHeaderList[k]) :
            /\ ~sectionData.panic
            /\ Unmarshal(sectionData.bytes, Targets[k]).ok
            /\ Unmarshal(sectionData.bytes, Targets[k]).rows = v[Targets[k]]

\* C6: whenever a section has been extracted, the strip has run exactly once
\* on the document the offsets were computed on.
C6_StrippedBeforeExtraction == extracted # <<>> => strips = 1

Collections(vehicle) == { vehicle[Targets[k]] : k \in DOMAIN Targets }

\* C8: a load that fails to decode a section hands back a Vehicle that holds
\* no decoded record of any section.
C8_NoPartialResult ==
    (pc = "returned" /\ err.kind = "parse") => Collections(v) = {<<>>}

\* C9: the error of a load that fails to decode a section wraps the decoder's
\* error and names the failing section.
C9_ErrorNamesSection ==
    (pc = "returned" /\ err.kind = "parse") =>
        /\ err.wraps # "nil"
        /\ Contains(err.label, SectionHeaderList[idx + 1])

\* TRUE when the caller loads a file: LoadFile or NewVehicleFromFile.
FileLoad == entry \in {"LoadFile", "NewVehicleFromFile"}

\* No data row of the file holds the text of a section header.
HeadersOnHeaderLinesOnly ==
    \A h, g \in Headers : \A k \in DOMAIN content.rows[h] :
        ~Contains(content.rows[h][k], g)

\* The file holds one VEHICLE row and no row in the five other sections.
OneVehicleOnly ==
    /\ content.rows[VEHICLE] = <<GoodRow(VEHICLE)>>
    /\ \A h \in Headers \ {VEHICLE} : content.rows[h] = <<>>

LoadedData == IF FileLoad THEN StripErroneous(disk) ELSE disk

\* The range of header h as the document d alone determines it: from the end
\* of the header line to the byte before the nearest header found after it.
RangeOf(d, h) ==
    LET following == FollowingOffsets(d, h, Index(d, h)) IN
    [start |-> Index(d, h) + Len(h) + 1,
     end   |-> IF following = {} THEN Len(d) ELSE Min(following) - 1]

\* C14: at every point of a load Raw is the data handed in, and every section
\* taken out so far, whatever was extracted and decoded before it, has the
\* range that Raw and its header alone determine and was decoded to the
\* records that the bytes of that range alone determine; so the six
\* collections of a successful load are the same for every order of decoding.
C14_DecodingOrderIndependent ==
    pc \in {"unmarshal", "returned", "panicked"} =>
        /\ (pc = "returned" /\ err.kind = "read") \/ v.Raw = LoadedData
        /\ \A k \in DOMAIN extracted :
              LET h == SectionHeaderList[k]
                  r == RangeOf(v.Raw, h)
              IN /\ extracted[k].header = h
                 /\ extracted[k].start = r.start
                 /\ extracted[k].end = r.end
                 /\ k <= idx =>
                       /\ ~extracted[k].panic
                       /\ v[Targets[k]] =
                             Unmarshal(SubSeq(v.Raw, r.start + 1, r.end),
                                       Targets[k]).rows

\* A successful load of a file whose six sections all hold rows.
C14_Witness ==
    /\ pc = "returned"
    /\ err = NoError
    /\ idx = Len(Targets)
    /\ \A k \in DOMAIN Targets : v[Targets[k]] # <<>>
    /\ \E j, k \in DOMAIN Targets : v[Targets[j]] # v[Targets[k]]

\* TRUE when UnmarshalRoadtrip has returned nil.
ReturnedNil == pc = "returned" /\ err = NoError

\* C15: when UnmarshalRoadtrip has returned nil, each of the six sections, in
\* the order of the header list, was extracted without panic and its bytes
\* were decoded without error into the collection of its target; none was
\* skipped and none failed.
C15_SuccessOnlyAfterSixSections ==
    ReturnedNil =>
        /\ idx = Len(SectionHeaderList)
        /\ Len(extracted) = Len(SectionHeaderList)
        /\ \A k \in DOMAIN SectionHeaderList :
              /\ extracted[k].header = SectionHeaderList[k]
              /\ ~extracted[k].panic
              /\ LET decoded == Unmarshal(SubSeq(v.Raw, extracted[k].start + 1,
                                                 extracted[k].end), Targets[k])
                 IN decoded.ok /\ v[Targets[k]] = decoded.rows

\* LoadFile returned nil on a Vehicle the caller holds.
C15_Witness ==
    /\ ReturnedNil
    /\ entry = "LoadFile"
    /\ Len(extracted) = Len(SectionHeaderList)
    /\ v.FuelRecords # <<>>

\* C17: a load on a Vehicle without logger (the zero Vehicle, or one whose
\* logger was set to nil) never panics, whatever the step of the load.
C17_NoLoggerNoPanic == v.logger = "nil" => pc # "panicked"

\* TRUE when sep is in s at offset i.
OccursAt(s, sep, i) ==
    /\ i >= 0
    /\ i + Len(sep) <= Len(s)
    /\ \A k \in 1..Len(sep) : s[i + k] = sep[k]

\* The offset a range returned for header h was counted from.
OffsetUsed(r) == r.start - Len(r.header) - 1

\* C20: the offset a section is taken from is that of the first occurrence
\* of its header string in Raw, wherever that occurrence is: the header string
\* is there, and it is at no smaller offset, be it on a line of its own or
\* after other text in a data row.
C20_FirstOccurrenceAnywhere ==
    \A i \in DOMAIN extracted :
        LET h == extracted[i].header
            o == OffsetUsed(extracted[i])
        IN /\ OccursAt(v.Raw, h, o)
           /\ \A p \in 0..(o - 1) : ~OccursAt(v.Raw, h, p)

\* A section was taken from an occurrence of its header string inside a data
\* row, after a comma, while its header line comes later in the file.
C20_Witness ==
    \E i \in DOMAIN extracted :
        LET h == extracted[i].header
            o == OffsetUsed(extracted[i])
        IN /\ o > 0
           /\ OccursAt(v.Raw, h, o)
           /\ v.Raw[o] = ","
           /\ \E p \in (o + 1)..Len(v.Raw) :
                 OccursAt(v.Raw, h, p) /\ v.Raw[p] = NL

-----------------------------------------------------------------------------
(* Claims about a load on a Vehicle that holds an earlier load, checked     *)
(* under SpecReload                                                         *)

\* C16: when the file cannot be read, LoadFile returns the read error in one
\* step, no section is extracted or decoded, the strip does not run, and
\* Filename, Raw and the six collections of the Vehicle are what they were
\* before the call.
C16_ReadErrorLeavesVehicle ==
    (entry = "LoadFile" /\ ~readable) =>
        /\ pc = "returned"
        /\ err = ReadError
        /\ extracted = <<>>
        /\ idx = 0
        /\ strips = 0
        /\ v.Filename = PreviousVehicle.Filename
        /\ v.Raw = PreviousVehicle.Raw
        /\ \A k \in DOMAIN Targets : v[Targets[k]] = PreviousVehicle[Targets[k]]

\* LoadFile failed to read the file for a Vehicle holding an earlier load.
C16_Witness ==
    /\ entry = "LoadFile"
    /\ ~readable
    /\ pc = "returned"
    /\ err = ReadError
    /\ v.Filename = "previous"
    /\ v.Vehicles # <<>>

-----------------------------------------------------------------------------
(* Claims about repeated calls of GetSectionContents, checked under         *)
(* SpecRepeat                                                               *)

\* C19: after any sequence of GetSectionContents calls the document is byte
\* for byte the one that was loaded; every call returned the range that the
\* document and the requested header alone determine, whatever its place in
\* the sequence, so two calls for the same header returned the same range.
C19_NoStateBetweenCalls ==
    /\ doc = disk
    /\ \A i \in DOMAIN extracted :
          /\ extracted[i].start = RangeOf(doc, extracted[i].header).start
          /\ extracted[i].end = RangeOf(doc, extracted[i].header).end
          /\ \A j \in DOMAIN extracted :
                extracted[i].header = extracted[j].header => extracted[i] = extracted[j]

\* The same header was asked for twice with another one in between, and both
\* calls returned the same range that is not empty.
C19_Witness ==
    /\ Len(extracted) = 3
    /\ extracted[1].header = extracted[3].header
    /\ extracted[2].header # extracted[1].header
    /\ ~extracted[1].panic
    /\ ~extracted[2].panic
    /\ extracted[1].end > extracted[1].start
    /\ extracted[3] = extracted[1]
    /\ doc = disk

-----------------------------------------------------------------------------
(* Claims about header rows, checked under SpecColumns *)

\* The column names of the header row of section h in Raw.
ColumnsInRaw(h) ==
    LET row == HeaderRow(h, content)
                 \o (IF content.defect /\ h = VEHICLE /\ strips = 0
                     THEN omitHeaders ELSE <<>>)
    IN { Fields(row)[j] : j \in DOMAIN Fields(row) }

\* The columns every record shape requires, and the fields of a target's
\* records that may be left out of the header row: the three Tank fields of
\* a vehicle record, none for the other sections.
RequiredColumns(target) == { <<"O">>, <<"N">> }

OptionalEntries(target) ==
    IF target = "Vehicles"
    THEN { [field |-> "Tank1Type", column |-> Tank_1_Type],
           [field |-> "Tank2Type", column |-> Tank_2_Type],
           [field |-> "Tank2Units", column |-> Tank_2_Units] }
    ELSE {}

\* C18: a section the load has decoded has one record per data row, and in
\* every one of them a field tagged optional whose column the header row does
\* not name is the empty string, the zero value of its type; a section is
\* decoded exactly when its header row names every column that is not
\* optional: the decoder's header error comes from a missing required column
\* only.
C18_OptionalColumnsDefault ==
    /\ \A k \in 1..idx :
          LET h == SectionHeaderList[k] IN
          /\ Len(v[Targets[k]]) = Len(content.rows[h])
          /\ RequiredColumns(Targets[k]) \subseteq ColumnsInRaw(h)
          /\ \A e \in OptionalEntries(Targets[k]) :
                e.column \notin ColumnsInRaw(h) =>
                    \A j \in DOMAIN v[Targets[k]] : v[Targets[k]][j][e.field] = <<>>
    /\ (pc = "returned" /\ err.kind = "parse") =>
          (err.wraps = "header"
             <=> ~(RequiredColumns(Targets[idx + 1])
                     \subseteq ColumnsInRaw(SectionHeaderList[idx + 1])))

\* A load decoded a VEHICLE row from a header row that names Tank 1 Type and
\* not the two other optional columns.
C18_Witness ==
    /\ pc = "returned"
    /\ err = NoError
    /\ strips = 1
    /\ Len(v.Vehicles) = 1
    /\ v.Vehicles[1].Tank1Type = <<"g">>
    /\ v.Vehicles[1].Tank2Type = <<>>
    /\ v.Vehicles[1].Tank2Units = <<>>

\* The load failed on a header row that lacks a required column.
C18_WitnessRequired ==
    /\ pc = "returned"
    /\ err.kind = "parse"
    /\ err.wraps = "header"
    /\ idx = 1

-----------------------------------------------------------------------------
(* Claims about ParseDate, checked under SpecDate *)

AllDigits(s) == \A k \in DOMAIN s : s[k] \in Digits

\* The number a text of digits writes.
RECURSIVE Value(_)
Value(s) ==
    IF s = <<>> THEN 0
    ELSE Value(SubSeq(s, 1, Len(s) - 1)) * 10 + DigitValue(s[Len(s)])

\* s writes a number of lo..hi with at least least and at most 2 digits.
Writes(s, lo, hi, least) ==
    /\ Len(s) \in least..2
    /\ AllDigits(s)
    /\ Value(s) \in lo..hi

\* Last day of a month of the proleptic Gregorian calendar.
LastDay(month, year) ==
    IF month \in {1, 3, 5, 7, 8, 10, 12} THEN 31
    ELSE IF month # 2 THEN 30
    ELSE IF year % 400 = 0 \/ (year % 4 = 0 /\ year % 100 # 0) THEN 29
    ELSE 28

\* year-month-day: a year of 4 digits, a month and a day of 1 or 2 digits
\* each, naming a day of the calendar.
IsYearMonthDay(text) ==
    LET part == Split(text, "-") IN
    /\ Len(part) = 3
    /\ Len(part[1]) = 4
    /\ AllDigits(part[1])
    /\ Writes(part[2], 1, 12, 1)
    /\ Len(part[3]) \in 1..2
    /\ AllDigits(part[3])
    /\ Value(part[3]) \in 1..LastDay(Value(part[2]), Value(part[1]))

\* hour:minute on the 24-hour clock: an hour of 1 or 2 digits, a minute of 2.
IsHourMinute(text) ==
    LET part == Split(text, ":") IN
    /\ Len(part) = 2
    /\ Writes(part[1], 0, 23, 1)
    /\ Writes(part[2], 0, 59, 2)

DateOnlyFormat(text) == IsYearMonthDay(text)

DateTimeFormat(text) ==
    LET part == Split(text, " ") IN
    /\ Len(part) = 2
    /\ IsYearMonthDay(part[1])
    /\ IsHourMinute(part[2])

\* The calendar date a year-month-day text names.
CalendarDate(text) ==
    LET part == Split(text, "-") IN
    [year |-> Value(part[1]), month |-> Value(part[2]), day |-> Value(part[3])]

DateOf(t) == [year |-> t.year, month |-> t.month, day |-> t.day]

C12_FailureIsAValue ==
    /\ datePc \in {"idle", "returned"}
    /\ datePc = "returned" =>
          /\ (~DateTimeFormat(dateString) /\ ~DateOnlyFormat(dateString)) =>
                /\ dateOut.err # "nil"
                /\ dateOut.t = ZeroTime
          /\ (~DateTimeFormat(dateString) /\ DateOnlyFormat(dateString)) =>
                dateOut.err = "nil"

\* ParseDate returned an error for a text that starts like a date.
C12_Witness ==
    /\ datePc = "returned"
    /\ ~DateTimeFormat(dateString)
    /\ ~DateOnlyFormat(dateString)
    /\ Len(dateString) > 10
    /\ dateOut.err # "nil"
    /\ dateOut.t = ZeroTime
    /\ Len(dateOut.tried) = 2

=============================================================================
